---- MODULE Spec2Model ----
(***************************************************************************)
(* Model of the minimax/image-01 MCP server (src/src/index.ts).            *)
(*                                                                         *)
(* The server registers four tool handlers.  Each handler is an async      *)
(* function: it runs synchronously up to an `await`, is suspended while    *)
(* the awaited operation (a call of the Replicate client, or writeFile)    *)
(* is outstanding, and resumes when that operation settles.  One action    *)
(* of the model is one such synchronous stretch of a handler.  The remote  *)
(* API and the filesystem are the environment: their answers are chosen    *)
(* nondeterministically among the outcomes they can produce.               *)
(*                                                                         *)
(* JavaScript values are modelled as follows: an object is a function on   *)
(* the set of its defined keys (a key holding `undefined` is absent), a    *)
(* string that the code transforms is a sequence of one-character strings, *)
(* `null` for a local path is the empty tuple.                             *)
(***************************************************************************)
EXTENDS Integers, Sequences, FiniteSets, TLC

\* Longest output array the remote API returns in the model.
MaxOut == 3

\* Handler invocations the transport can have in flight at once.
Procs == {1, 2}

\* Prediction ids the remote system can assign, and an id it never assigned.
PredictionIds == {"p1"}
UnknownId == "p0"

VARIABLES
    calls,      \* calls[p]: the handler invocation in slot p (its locals and position)
    dirExists,  \* whether <cwd>/images exists
    files,      \* the names of the files that exist in <cwd>/images
    jobs,       \* the remote system's predictions: id -> prediction
    submitted,  \* history: id -> the arguments of the generate_async call that created it
    clock       \* the instant `new Date()` reads

vars == <<calls, dirExists, files, jobs, submitted, clock>>

(***************************************************************************)
(* JavaScript helpers                                                      *)
(***************************************************************************)

Has(obj, key) == key \in DOMAIN obj

\* `const { key = dflt } = obj`
Default(obj, key, dflt) == IF Has(obj, key) THEN obj[key] ELSE dflt

\* { ...f, ...g }
Merge(f, g) == [k \in DOMAIN f \cup DOMAIN g |-> IF k \in DOMAIN g THEN g[k] ELSE f[k]]

Field(key, value) == [k \in {key} |-> value]

EmptyObject == [k \in {} |-> TRUE]

Min(a, b) == IF a <= b THEN a ELSE b

\* A thrown value: whether it is an `instanceof Error`, and its message.
Error(msg) == [thrown |-> TRUE, instanceOfError |-> TRUE, message |-> msg]
NoError == [thrown |-> FALSE, instanceOfError |-> FALSE, message |-> ""]

\* `${x}` of an undefined value
Undefined == <<"u", "n", "d", "e", "f", "i", "n", "e", "d">>

(***************************************************************************)
(* generateImageFilename                                                   *)
(***************************************************************************)

UpperCase == <<"A", "B", "C", "D", "E", "F", "G", "H", "I", "J", "K", "L", "M",
               "N", "O", "P", "Q", "R", "S", "T", "U", "V", "W", "X", "Y", "Z">>
LowerCase == <<"a", "b", "c", "d", "e", "f", "g", "h", "i", "j", "k", "l", "m",
               "n", "o", "p", "q", "r", "s", "t", "u", "v", "w", "x", "y", "z">>
Digits == {"0", "1", "2", "3", "4", "5", "6", "7", "8", "9"}
Whitespace == {" ", "\t", "\n"}

Range(s) == {s[i] : i \in DOMAIN s}

\* String.prototype.toLowerCase, one character
LowerChar(c) ==
    IF c \in Range(UpperCase)
    THEN LowerCase[CHOOSE i \in DOMAIN UpperCase : UpperCase[i] = c]
    ELSE c

toLowerCase(s) == [i \in DOMAIN s |-> LowerChar(s[i])]

\* .replace(/[^a-z0-9\s]/g, '')
IsKept(c) == c \in Range(LowerCase) \cup Digits \cup Whitespace
StripSymbols(s) == SelectSeq(s, IsKept)

\* .replace(/\s+/g, '_'): every maximal run of whitespace becomes one underscore
RECURSIVE CollapseWhitespace(_)
CollapseWhitespace(s) ==
    IF s = <<>> THEN <<>>
    ELSE IF Head(s) \in Whitespace
         THEN IF Len(s) > 1 /\ s[2] \in Whitespace
              THEN CollapseWhitespace(Tail(s))
              ELSE <<"_">> \o CollapseWhitespace(Tail(s))
         ELSE <<Head(s)>> \o CollapseWhitespace(Tail(s))

SafePromptLength == 50

\* .substring(0, 50)
Truncate(s) == SubSeq(s, 1, Min(SafePromptLength, Len(s)))

safePrompt(prompt) == Truncate(CollapseWhitespace(StripSymbols(toLowerCase(prompt))))

DecimalDigits == <<"0", "1", "2", "3", "4", "5", "6", "7", "8", "9">>

\* `${n}` of a non-negative integer
RECURSIVE NumberToString(_)
NumberToString(n) ==
    IF n < 10 THEN <<DecimalDigits[n + 1]>>
    ELSE NumberToString(n \div 10) \o <<DecimalDigits[(n % 10) + 1]>>

\* A field of toISOString: n in decimal, zero-padded to `width` digits.
RECURSIVE Power10(_)
Power10(k) == IF k = 0 THEN 1 ELSE 10 * Power10(k - 1)
Padded(n, width) ==
    [i \in 1..width |-> DecimalDigits[((n \div Power10(width - i)) % 10) + 1]]

\* Date.prototype.toISOString of the instant `now` (milliseconds since the
\* epoch): YYYY-MM-DDTHH:mm:ss.sssZ.  The instants of the model lie within the
\* first day of the epoch, so the date is one fixed piece of the string.
MsPerSecond == 1000
MsPerMinute == 60000
MsPerHour == 3600000
toISOString(now) ==
    <<"1970-01-01T">> \o Padded((now \div MsPerHour) % 24, 2) \o <<":">>
                      \o Padded((now \div MsPerMinute) % 60, 2) \o <<":">>
                      \o Padded((now \div MsPerSecond) % 60, 2) \o <<".">>
                      \o Padded(now % MsPerSecond, 3) \o <<"Z">>

\* .replace(/[:.]/g, '-')
ReplaceSeparators(s) == [i \in DOMAIN s |-> IF s[i] \in {":", "."} THEN "-" ELSE s[i]]

\* A rendering of the instant that loses the milliseconds.
timestamp_ToTheSecond(now) == ReplaceSeparators(SubSeq(toISOString(now), 1, 9))

\* new Date().toISOString().replace(/[:.]/g, '-')
timestamp(now) == ReplaceSeparators(toISOString(now))

FilePrefix == "minimax_image_01_"
FileExtension == ".jpeg"

\* `minimax_image_01_${safePrompt}_${index}_${timestamp}.jpeg`
generateImageFilename(prompt, index, now) ==
    <<FilePrefix>> \o safePrompt(prompt) \o <<"_">> \o NumberToString(index) \o <<"_">>
                   \o timestamp(now) \o <<FileExtension>>

\* path.join(imagesDir, filename)
ImagesDir == "images"
FilePath(filename) == <<ImagesDir, filename>>
NullPath == <<>>

(***************************************************************************)
(* Tool inputs                                                             *)
(***************************************************************************)

Prompt == <<"A", " ", "R", "e", "d", "!">>
SubjectUri == "https://example.com/face.png"
WebhookUrl == "https://example.com/hook"

\* Longest of the prompts that generateImageFilename is applied to exhaustively.
MaxPromptLen == 3

\* Characters of those prompts: an upper-case letter, a digit, a space, a tab
\* and a symbol.
PromptChars == {"A", "1", " ", "\t", "!"}
ShortPrompts == UNION {[1..n -> PromptChars] : n \in 0..MaxPromptLen}

\* Prompts longer than the 50 characters kept: 52 letters, and 49 letters
\* followed by a run of whitespace that straddles the cut.
RedPanda == <<"A", " ", "R", "e", "d", " ", "P", "a", "n", "d", "a", "!", "!", "!">>
LongPrompts == {LowerCase \o UpperCase,
                LowerCase \o SubSeq(UpperCase, 1, 23) \o <<" ", "\t", "z">>}

DerivePrompts == ShortPrompts \cup LongPrompts \cup {RedPanda}
DeriveIndices == {1, 10}

\* Instants `new Date()` reads, either side of a second, a minute and an hour.
DeriveInstants == {0, 999, 1000, 60000, 3600000}

\* inputSchema.properties.aspect_ratio.enum
AspectRatios == {"1:1", "16:9", "4:3", "3:2", "2:3", "3:4", "9:16", "21:9"}
\* inputSchema.properties.number_of_images.minimum / maximum
MinImages == 1
MaxImages == 9

\* The inputSchema the generate tools are registered with.
ValidRequest(args) ==
    /\ Has(args, "prompt")
    /\ Has(args, "aspect_ratio") => args.aspect_ratio \in AspectRatios
    /\ Has(args, "number_of_images") =>
          /\ args.number_of_images >= MinImages
          /\ args.number_of_images <= MaxImages

\* Arguments the transport hands to minimax_image_01_generate: requests that
\* meet the inputSchema (with and without the optional fields), and requests
\* that violate it in each of the ways the schema rules out.
GenerateRequests ==
    { [prompt |-> Prompt],
      [prompt |-> Prompt, number_of_images |-> 3, aspect_ratio |-> "16:9",
       prompt_optimizer |-> FALSE, subject_reference |-> SubjectUri],
      [number_of_images |-> 1],
      [prompt |-> Prompt, number_of_images |-> 0],
      [prompt |-> Prompt, number_of_images |-> 10, aspect_ratio |-> "5:4"] }

\* Arguments the transport hands to minimax_image_01_generate_async.
AsyncRequests ==
    { [prompt |-> Prompt],
      [prompt |-> Prompt, number_of_images |-> 3, aspect_ratio |-> "16:9",
       prompt_optimizer |-> FALSE, subject_reference |-> SubjectUri,
       webhook |-> WebhookUrl],
      [number_of_images |-> 0, aspect_ratio |-> "5:4"] }

\* Arguments of minimax_image_01_get_prediction / _cancel_prediction.
IdRequests == {[prediction_id |-> id] : id \in PredictionIds \cup {UnknownId}}

\* A JavaScript string is truthy unless empty, a number unless 0.
TruthyString(obj, key) == Has(obj, key) /\ obj[key] # ""
TruthyNumber(obj, key) == Has(obj, key) /\ obj[key] # 0

\* The MinimaxImageInput both generate handlers build from their arguments.
BuildInput(args) ==
    Merge(Merge([aspect_ratio     |-> Default(args, "aspect_ratio", "1:1"),
                 number_of_images |-> Default(args, "number_of_images", 1),
                 prompt_optimizer |-> Default(args, "prompt_optimizer", TRUE)],
                IF Has(args, "prompt") THEN Field("prompt", args.prompt) ELSE EmptyObject),
          IF TruthyString(args, "subject_reference")
          THEN Field("subject_reference", args.subject_reference)
          ELSE EmptyObject)

\* predictionOptions of generate_async
BuildPredictionOptions(args) ==
    Merge([model |-> "minimax/image-01", input |-> BuildInput(args)],
          IF TruthyString(args, "webhook")
          THEN [webhook |-> args.webhook,
                webhook_events_filter |-> Default(args, "webhook_events_filter", <<"completed">>)]
          ELSE EmptyObject)

(***************************************************************************)
(* The remote API (Replicate) and the filesystem                           *)
(***************************************************************************)

\* Messages of the errors the Replicate client rejects with.
TransportErrors == {"Request failed: 401 Unauthorized"}
NotFoundMessage == "Request failed: 404 Not Found"
MkdirMessage == "EACCES: permission denied, mkdir"
TypeErrorMessage == "Cannot read properties of undefined (reading 'toLowerCase')"
EmptyOutputMessage == "No images returned from the API"

\* An output array of k file handles; url() of the i-th is the token k + 1 - i.
Output(k) == [i \in 1..k |-> [url |-> k + 1 - i]]

NoOutput == [present |-> FALSE, refs |-> <<>>]
SomeOutput(k) == [present |-> TRUE, refs |-> Output(k)]

\* The statuses a prediction ends in; "queued" and "running" are the others.
Terminal == {"succeeded", "failed", "cancelled"}

\* How writeFile(filePath, imageFile) can settle: the file written in full,
\* rejected before anything was written, or rejected after part was written.
WriteOutcomes == {"written", "rejected", "rejected_partial"}

\* The directory after writeFile settled: the file exists once writeFile has
\* opened it, whether or not all of it was written.
WriteEffect(fs, filename, outcome) ==
    IF outcome \in {"written", "rejected_partial"} THEN fs \cup {filename} ELSE fs

\* ensureImagesDirectory: the ways it can end when the directory exists or not.
\* mkdirSync can throw (read-only or unwritable working directory).
ensureImagesDirectory(exists) ==
    IF exists
    THEN {[error |-> NoError, exists |-> TRUE, made |-> FALSE]}
    ELSE {[error |-> NoError, exists |-> TRUE, made |-> TRUE],
          [error |-> Error(MkdirMessage), exists |-> FALSE, made |-> FALSE]}

(***************************************************************************)
(* Handler invocations                                                     *)
(***************************************************************************)

NoResponse == [content |-> <<>>, isError |-> FALSE]

IdleCall ==
    [pc          |-> "idle",
     tool        |-> "none",
     args        |-> EmptyObject,
     remoteCalls |-> 0,
     reply       |-> EmptyObject,
     output      |-> <<>>,
     filename    |-> EmptyObject,
     savedImages |-> <<>>,
     attempts    |-> <<>>,
     madeDir     |-> FALSE,
     thrown      |-> NoError,
     response    |-> NoResponse]

\* The handler is entered: its synchronous prefix runs up to the remote call.
Enter(tool, args, pc) ==
    [IdleCall EXCEPT !.pc = pc, !.tool = tool, !.args = args, !.remoteCalls = 1]

\* `return { content: [{ type: "text", text }] }`
Success(text) == [content |-> <<[type |-> "text", text |-> text]>>, isError |-> FALSE]

\* `return { content: [{ type: "text", text: errorMessage }], isError: true }`
Failure(text) == [content |-> <<[type |-> "text", text |-> text]>>, isError |-> TRUE]

\* A catch block that reports every failure as unknown.
ErrorMessage_DropsMessage(prefix, error) ==
    [prefix |-> prefix, detail |-> "Unknown error occurred"]

\* error instanceof Error ? `${prefix}: ${error.message}` : `${prefix}: Unknown error occurred`
ErrorMessage(prefix, error) ==
    [prefix |-> prefix,
     detail |-> IF error.instanceOfError THEN error.message ELSE "Unknown error occurred"]

\* The handler returns `response`; `error` is what its try block threw, if anything.
Returned(call, error, response) ==
    [call EXCEPT !.pc = "done", !.thrown = error, !.response = response]

\* One entry of savedImages, pushed after writeFile settled.
SavedImage(index, filename, ref, outcome) ==
    [index     |-> index,
     filename  |-> filename,
     localPath |-> IF outcome = "written" THEN FilePath(filename) ELSE NullPath,
     url       |-> ref.url]

\* The per-image block of the response text.
ImageDetails(img) ==
    Merge([index |-> img.index, url |-> img.url, filename |-> img.filename],
          IF img.localPath # NullPath THEN Field("localPath", img.localPath) ELSE EmptyObject)

SomeSaved(savedImages) == \E i \in DOMAIN savedImages : savedImages[i].localPath # NullPath

(***************************************************************************)
(* minimax_image_01_generate                                               *)
(***************************************************************************)

SavedNote == "Images have been saved to the local 'images' directory in JPEG format."
SaveFailedNote == "Note: Local save failed, but original URLs are available."

\* A handler whose failure leaves it as an unhandled rejection.
GenerateCatch_Rethrows(call, error) ==
    [call EXCEPT !.pc = "escaped", !.thrown = error]

\* The catch block of the handler.
GenerateCatch(call, error) ==
    Returned(call, error, Failure(ErrorMessage("Failed to generate images", error)))

\* responseText of a run that returned images.
GenerateText(call) ==
    Merge([title            |-> "Successfully generated",
           count            |-> Len(call.savedImages),
           prompt           |-> call.args.prompt,
           aspect_ratio     |-> Default(call.args, "aspect_ratio", "1:1"),
           number_of_images |-> Default(call.args, "number_of_images", 1),
           prompt_optimizer |-> Default(call.args, "prompt_optimizer", TRUE),
           images           |-> [i \in DOMAIN call.savedImages |->
                                    ImageDetails(call.savedImages[i])],
           note             |-> IF SomeSaved(call.savedImages)
                                THEN SavedNote ELSE SaveFailedNote],
          IF TruthyString(call.args, "subject_reference")
          THEN Field("subject_reference", call.args.subject_reference)
          ELSE EmptyObject)

\* One turn of the save loop up to its await: the filename is derived (which
\* throws a TypeError when prompt is undefined) and writeFile is started.
GenerateSave(call, index, now) ==
    IF ~Has(call.args, "prompt")
    THEN GenerateCatch(call, Error(TypeErrorMessage))
    ELSE [call EXCEPT !.pc = "write",
                      !.filename = generateImageFilename(call.args.prompt, index, now),
                      !.attempts = Append(@, call.output[index].url)]

\* A check that lets an empty array through.
EmptyOutput_OnlyAbsent(out) == ~out.present

\* `!output || output.length === 0`
EmptyOutput(out) == ~out.present \/ Len(out.refs) = 0

\* The save loop from its turn `index` on: the turn up to its await, or, the
\* output having no such entry, the formatting and return of the response.
GenerateLoop(call, index, now) ==
    IF index <= Len(call.output)
    THEN GenerateSave(call, index, now)
    ELSE Returned(call, NoError, Success(GenerateText(call)))

\* The handler is called: it builds the input and awaits replicate.run.
Generate_Start(p, args) ==
    /\ calls[p].pc = "idle"
    /\ calls' = [calls EXCEPT ![p] = Enter("generate", args, "run")]
    /\ UNCHANGED <<dirExists, files, jobs, submitted, clock>>

\* replicate.run rejects.
Generate_RunRejects(p) ==
    /\ calls[p].pc = "run"
    /\ \E m \in TransportErrors :
          calls' = [calls EXCEPT ![p] =
                       GenerateCatch([@ EXCEPT !.reply = [error |-> Error(m), output |-> NoOutput]],
                                     Error(m))]
    /\ UNCHANGED <<dirExists, files, jobs, submitted, clock>>

\* replicate.run resolves: the empty-output check, ensureImagesDirectory and
\* the first turn of the save loop.
Generate_RunResolves(p) ==
    /\ calls[p].pc = "run"
    /\ \E out \in {NoOutput} \cup {SomeOutput(k) : k \in 0..MaxOut},
          dir \in ensureImagesDirectory(dirExists) :
          LET call == [calls[p] EXCEPT !.reply = [error |-> NoError, output |-> out],
                                       !.output = out.refs]
          IN  IF EmptyOutput(out)
              THEN /\ calls' = [calls EXCEPT ![p] = GenerateCatch(call, Error(EmptyOutputMessage))]
                   /\ UNCHANGED dirExists
              ELSE IF dir.error.thrown
              THEN /\ calls' = [calls EXCEPT ![p] = GenerateCatch(call, dir.error)]
                   /\ UNCHANGED dirExists
              ELSE /\ calls' = [calls EXCEPT ![p] =
                                   GenerateLoop([call EXCEPT !.madeDir = dir.made], 1, clock)]
                   /\ dirExists' = dir.exists
    /\ UNCHANGED <<files, jobs, submitted, clock>>

\* writeFile settles: the entry is pushed, and the loop goes on or the
\* response is formatted and returned.
Generate_WriteSettles(p) ==
    /\ calls[p].pc = "write"
    /\ calls[p].tool = "generate"
    /\ \E outcome \in WriteOutcomes :
          LET call  == calls[p]
              index == Len(call.savedImages) + 1
              next  == [call EXCEPT !.savedImages =
                           Append(@, SavedImage(index, call.filename, call.output[index], outcome))]
          IN  /\ files' = WriteEffect(files, call.filename, outcome)
              /\ calls' = [calls EXCEPT ![p] =
                              GenerateLoop(next, index + 1, clock)]
    /\ UNCHANGED <<dirExists, jobs, submitted, clock>>

(***************************************************************************)
(* The remote system's predictions                                         *)
(***************************************************************************)

FailureText == "Prediction failed"

\* The prediction replicate.predictions.create registers and returns.
NewPrediction(id, options) ==
    [id      |-> id,
     status  |-> "queued",
     model   |-> options.model,
     input   |-> options.input,
     webhook |-> IF Has(options, "webhook") THEN options.webhook ELSE "",
     output  |-> NoOutput,
     error   |-> ""]

\* The remote system works on a prediction.  Output can appear while the
\* prediction is still running; a succeeded prediction carries its output
\* array (of any length) or none.
RemoteProgress(id) ==
    /\ id \in DOMAIN jobs
    /\ \/ /\ jobs[id].status = "queued"
          /\ \E out \in {NoOutput, SomeOutput(1)} :
                jobs' = [jobs EXCEPT ![id].status = "running", ![id].output = out]
       \/ /\ jobs[id].status = "running"
          /\ \E out \in {NoOutput} \cup {SomeOutput(k) : k \in 0..MaxOut} :
                jobs' = [jobs EXCEPT ![id].status = "succeeded", ![id].output = out]
       \/ /\ jobs[id].status \in {"queued", "running"}
          /\ jobs' = [jobs EXCEPT ![id].status = "failed", ![id].error = FailureText]
    /\ UNCHANGED <<calls, dirExists, files, submitted, clock>>

\* What a cancel request can leave a prediction's status at: cancelled, or
\* (the request being advisory, or the prediction terminal already) unchanged.
CancelledStatuses(status) ==
    IF status \in Terminal THEN {status} ELSE {"cancelled", status}

(***************************************************************************)
(* minimax_image_01_generate_async                                         *)
(***************************************************************************)

GenerateAsyncCatch(call, error) ==
    Returned(call, error, Failure(ErrorMessage("Failed to create prediction", error)))

\* responseText of a created prediction.
GenerateAsyncText(call, prediction) ==
    Merge([title            |-> "Async prediction created successfully",
           prediction_id    |-> prediction.id,
           status           |-> prediction.status,
           prompt           |-> Default(call.args, "prompt", Undefined),
           aspect_ratio     |-> Default(call.args, "aspect_ratio", "1:1"),
           number_of_images |-> Default(call.args, "number_of_images", 1),
           prompt_optimizer |-> Default(call.args, "prompt_optimizer", TRUE),
           webhook          |-> IF TruthyString(call.args, "webhook")
                                THEN call.args.webhook ELSE "No webhook configured"],
          IF TruthyString(call.args, "subject_reference")
          THEN Field("subject_reference", call.args.subject_reference)
          ELSE EmptyObject)

\* The handler is called: it builds predictionOptions and awaits
\* replicate.predictions.create.
GenerateAsync_Start(p, args) ==
    /\ calls[p].pc = "idle"
    /\ PredictionIds \ DOMAIN jobs # {}
    /\ calls' = [calls EXCEPT ![p] = Enter("generate_async", args, "create")]
    /\ UNCHANGED <<dirExists, files, jobs, submitted, clock>>

GenerateAsync_CreateRejects(p) ==
    /\ calls[p].pc = "create"
    /\ \E m \in TransportErrors :
          calls' = [calls EXCEPT ![p] =
                       GenerateAsyncCatch([@ EXCEPT !.reply = [error |-> Error(m)]], Error(m))]
    /\ UNCHANGED <<dirExists, files, jobs, submitted, clock>>

GenerateAsync_CreateResolves(p) ==
    /\ calls[p].pc = "create"
    /\ \E id \in PredictionIds \ DOMAIN jobs :
          LET prediction == NewPrediction(id, BuildPredictionOptions(calls[p].args))
              call == [calls[p] EXCEPT !.reply = [error |-> NoError, prediction |-> prediction]]
          IN  /\ jobs' = Merge(jobs, Field(id, prediction))
              /\ submitted' = Merge(submitted, Field(id, calls[p].args))
              /\ calls' = [calls EXCEPT ![p] =
                              Returned(call, NoError, Success(GenerateAsyncText(call, prediction)))]
    /\ UNCHANGED <<dirExists, files, clock>>

(***************************************************************************)
(* minimax_image_01_get_prediction                                         *)
(***************************************************************************)

GetPredictionCatch(call, error) ==
    Returned(call, error, Failure(ErrorMessage("Failed to get prediction status", error)))

\* An echo that tests prompt_optimizer for truthiness, like its neighbours.
InputParameters_TruthyOptimizer(input) ==
    Merge(Merge(Merge(Merge(
        Field("prompt", Default(input, "prompt", Undefined)),
        IF TruthyString(input, "aspect_ratio")
        THEN Field("aspect_ratio", input.aspect_ratio) ELSE EmptyObject),
        IF TruthyNumber(input, "number_of_images")
        THEN Field("number_of_images", input.number_of_images) ELSE EmptyObject),
        IF Has(input, "prompt_optimizer") /\ input.prompt_optimizer
        THEN Field("prompt_optimizer", input.prompt_optimizer) ELSE EmptyObject),
        IF TruthyString(input, "subject_reference")
        THEN Field("subject_reference", input.subject_reference) ELSE EmptyObject)

\* The "Input Parameters" block of the response text.
InputParameters(input) ==
    Merge(Merge(Merge(Merge(
        Field("prompt", Default(input, "prompt", Undefined)),
        IF TruthyString(input, "aspect_ratio")
        THEN Field("aspect_ratio", input.aspect_ratio) ELSE EmptyObject),
        IF TruthyNumber(input, "number_of_images")
        THEN Field("number_of_images", input.number_of_images) ELSE EmptyObject),
        IF Has(input, "prompt_optimizer")
        THEN Field("prompt_optimizer", input.prompt_optimizer) ELSE EmptyObject),
        IF TruthyString(input, "subject_reference")
        THEN Field("subject_reference", input.subject_reference) ELSE EmptyObject)

\* A guard that saves whatever output a prediction carries.
HasImages_IgnoresStatus(prediction) ==
    /\ prediction.output.present
    /\ Len(prediction.output.refs) > 0

\* `prediction.output && prediction.status === 'succeeded'`, then
\* `output && output.length > 0`
HasImages(prediction) ==
    /\ prediction.output.present
    /\ prediction.status = "succeeded"
    /\ Len(prediction.output.refs) > 0

\* responseText, as it stands when the handler returns.
GetPredictionText(call) ==
    LET prediction == call.reply.prediction
    IN  Merge(Merge(Merge(
            [title         |-> "Prediction Status",
             prediction_id |-> call.args.prediction_id,
             status        |-> prediction.status,
             model         |-> prediction.model,
             input         |-> InputParameters(prediction.input)],
            IF prediction.error # "" THEN Field("error", prediction.error) ELSE EmptyObject),
            IF HasImages(prediction)
            THEN Field("images", [i \in DOMAIN call.savedImages |->
                                     ImageDetails(call.savedImages[i])])
            ELSE EmptyObject),
            IF SomeSaved(call.savedImages) THEN Field("note", SavedNote) ELSE EmptyObject)

\* `input?.prompt || 'prediction'`
PredictionPrompt(prediction) ==
    IF Has(prediction.input, "prompt") /\ prediction.input.prompt # <<>>
    THEN prediction.input.prompt
    ELSE <<"p", "r", "e", "d", "i", "c", "t", "i", "o", "n">>

\* One turn of the save loop up to its await.
GetPredictionSave(call, index, now) ==
    [call EXCEPT !.pc = "write",
                 !.filename = generateImageFilename(PredictionPrompt(call.reply.prediction),
                                                    index, now),
                 !.attempts = Append(@, call.output[index].url)]

\* The handler is called: it awaits replicate.predictions.get.
GetPrediction_Start(p, args) ==
    /\ calls[p].pc = "idle"
    /\ calls' = [calls EXCEPT ![p] = Enter("get_prediction", args, "get")]
    /\ UNCHANGED <<dirExists, files, jobs, submitted, clock>>

\* replicate.predictions.get rejects: the id is unknown, or the transport fails.
GetPrediction_GetRejects(p) ==
    /\ calls[p].pc = "get"
    /\ \E m \in TransportErrors \cup
                IF calls[p].args.prediction_id \in DOMAIN jobs THEN {} ELSE {NotFoundMessage} :
          calls' = [calls EXCEPT ![p] =
                       GetPredictionCatch([@ EXCEPT !.reply = [error |-> Error(m)]], Error(m))]
    /\ UNCHANGED <<dirExists, files, jobs, submitted, clock>>

\* replicate.predictions.get resolves: the text is built, and for a succeeded
\* prediction with images ensureImagesDirectory runs and the save loop starts.
GetPrediction_GetResolves(p) ==
    /\ calls[p].pc = "get"
    /\ calls[p].args.prediction_id \in DOMAIN jobs
    /\ \E dir \in ensureImagesDirectory(dirExists) :
          LET prediction == jobs[calls[p].args.prediction_id]
              call == [calls[p] EXCEPT !.reply = [error |-> NoError, prediction |-> prediction],
                                       !.output = prediction.output.refs]
          IN  IF ~HasImages(prediction)
              THEN /\ calls' = [calls EXCEPT ![p] =
                                   Returned(call, NoError, Success(GetPredictionText(call)))]
                   /\ UNCHANGED dirExists
              ELSE IF dir.error.thrown
              THEN /\ calls' = [calls EXCEPT ![p] = GetPredictionCatch(call, dir.error)]
                   /\ UNCHANGED dirExists
              ELSE /\ calls' = [calls EXCEPT ![p] =
                                   GetPredictionSave([call EXCEPT !.madeDir = dir.made], 1, clock)]
                   /\ dirExists' = dir.exists
    /\ UNCHANGED <<files, jobs, submitted, clock>>

\* writeFile settles.
GetPrediction_WriteSettles(p) ==
    /\ calls[p].pc = "write"
    /\ calls[p].tool = "get_prediction"
    /\ \E outcome \in WriteOutcomes :
          LET call  == calls[p]
              index == Len(call.savedImages) + 1
              next  == [call EXCEPT !.savedImages =
                           Append(@, SavedImage(index, call.filename, call.output[index], outcome))]
          IN  /\ files' = WriteEffect(files, call.filename, outcome)
              /\ calls' = [calls EXCEPT ![p] =
                              IF index < Len(call.output)
                              THEN GetPredictionSave(next, index + 1, clock)
                              ELSE Returned(next, NoError, Success(GetPredictionText(next)))]
    /\ UNCHANGED <<dirExists, jobs, submitted, clock>>

(***************************************************************************)
(* minimax_image_01_cancel_prediction                                      *)
(***************************************************************************)

\* A catch block that issues the request once more before it gives up.
CancelPredictionCatch_Retries(call, error) ==
    IF call.remoteCalls < 2
    THEN [call EXCEPT !.pc = "cancel", !.remoteCalls = @ + 1]
    ELSE Returned(call, error, Failure(ErrorMessage("Failed to cancel prediction", error)))

CancelPredictionCatch(call, error) ==
    Returned(call, error, Failure(ErrorMessage("Failed to cancel prediction", error)))

\* A response that takes the cancellation for granted.
CancelPredictionText_AssumesCancelled(call, prediction) ==
    [title         |-> "has been cancelled",
     prediction_id |-> call.args.prediction_id,
     status        |-> "cancelled",
     model         |-> prediction.model]

\* responseText of a cancel request the remote system answered.
CancelPredictionText(call, prediction) ==
    [title         |-> "has been cancelled",
     prediction_id |-> call.args.prediction_id,
     status        |-> prediction.status,
     model         |-> prediction.model]

\* The handler is called: it awaits replicate.predictions.cancel.
CancelPrediction_Start(p, args) ==
    /\ calls[p].pc = "idle"
    /\ calls' = [calls EXCEPT ![p] = Enter("cancel_prediction", args, "cancel")]
    /\ UNCHANGED <<dirExists, files, jobs, submitted, clock>>

CancelPrediction_CancelRejects(p) ==
    /\ calls[p].pc = "cancel"
    /\ \E m \in TransportErrors \cup
                IF calls[p].args.prediction_id \in DOMAIN jobs THEN {} ELSE {NotFoundMessage} :
          calls' = [calls EXCEPT ![p] =
                       CancelPredictionCatch([@ EXCEPT !.reply = [error |-> Error(m)]], Error(m))]
    /\ UNCHANGED <<dirExists, files, jobs, submitted, clock>>

\* replicate.predictions.cancel resolves with the prediction as the remote
\* system now reports it.
CancelPrediction_CancelResolves(p) ==
    /\ calls[p].pc = "cancel"
    /\ calls[p].args.prediction_id \in DOMAIN jobs
    /\ \E status \in CancelledStatuses(jobs[calls[p].args.prediction_id].status) :
          LET id == calls[p].args.prediction_id
              prediction == [jobs[id] EXCEPT !.status = status]
              call == [calls[p] EXCEPT !.reply = [error |-> NoError, prediction |-> prediction]]
          IN  /\ jobs' = [jobs EXCEPT ![id] = prediction]
              /\ calls' = [calls EXCEPT ![p] =
                              Returned(call, NoError,
                                       Success(CancelPredictionText(call, prediction)))]
    /\ UNCHANGED <<dirExists, files, submitted, clock>>

(***************************************************************************)
(* The transport                                                           *)
(***************************************************************************)

\* The response is handed to the transport; the slot is free again.
Return(p) ==
    /\ calls[p].pc = "done"
    /\ calls' = [calls EXCEPT ![p] = IdleCall]
    /\ UNCHANGED <<dirExists, files, jobs, submitted, clock>>

\* The transport delivers one tool call at a time, into the first slot.  Under
\* Spec the calls follow one another within one reading of the clock, so a
\* later call derives the filenames an earlier one derived for the same prompt.
Serial(p) == p = 1 /\ \A q \in Procs : calls[q].pc = "idle"

Init ==
    /\ calls = [p \in Procs |-> IdleCall]
    /\ dirExists = FALSE
    /\ files = {}
    /\ jobs = EmptyObject
    /\ submitted = EmptyObject
    /\ clock = 0

Next ==
    \E p \in Procs :
       \/ \E args \in GenerateRequests : Serial(p) /\ Generate_Start(p, args)
       \/ Generate_RunRejects(p)
       \/ Generate_RunResolves(p)
       \/ Generate_WriteSettles(p)
       \/ \E args \in AsyncRequests : Serial(p) /\ GenerateAsync_Start(p, args)
       \/ GenerateAsync_CreateRejects(p)
       \/ GenerateAsync_CreateResolves(p)
       \/ \E args \in IdRequests : Serial(p) /\ GetPrediction_Start(p, args)
       \/ GetPrediction_GetRejects(p)
       \/ GetPrediction_GetResolves(p)
       \/ GetPrediction_WriteSettles(p)
       \/ \E args \in IdRequests : Serial(p) /\ CancelPrediction_Start(p, args)
       \/ CancelPrediction_CancelRejects(p)
       \/ CancelPrediction_CancelResolves(p)
       \/ Return(p)
       \/ \E id \in PredictionIds : p = 1 /\ RemoteProgress(id)

Spec == Init /\ [][Next]_vars

(***************************************************************************)
(* generateImageFilename on its own                                        *)
(***************************************************************************)

\* Time passes: the next `new Date()` reads a later one of `instants`.
Tick(instants) ==
    /\ \E t \in instants : t > clock /\ clock' = t
    /\ UNCHANGED <<calls, dirExists, files, jobs, submitted>>

\* generateImageFilename(prompt, index) is called at the instant the clock
\* shows; the caller keeps the name.
Derive(p) ==
    /\ calls[p].pc = "input"
    /\ calls' = [calls EXCEPT ![p] =
                    [@ EXCEPT !.pc = "derived",
                              !.reply = [now |-> clock],
                              !.filename = generateImageFilename(calls[p].args.prompt,
                                                                 calls[p].args.index, clock)]]
    /\ UNCHANGED <<dirExists, files, jobs, submitted, clock>>

\* Two callers hold the same prompt and index.
DeriveInit ==
    /\ \E prompt \in DerivePrompts, index \in DeriveIndices :
          calls = [p \in Procs |->
                      [IdleCall EXCEPT !.pc = "input",
                                       !.args = [prompt |-> prompt, index |-> index]]]
    /\ dirExists = FALSE
    /\ files = {}
    /\ jobs = EmptyObject
    /\ submitted = EmptyObject
    /\ clock = 0

DeriveNext ==
    \/ \E p \in Procs : Derive(p)
    \/ Tick(DeriveInstants)

DeriveSpec == DeriveInit /\ [][DeriveNext]_vars

(***************************************************************************)
(* Tool calls in flight together                                           *)
(***************************************************************************)

\* Readings of the clock while the calls below run.
MaxTicks == 1

\* The request each of the concurrent calls carries.
ConcurrentRequests == {[prompt |-> Prompt]}

\* The transport dispatches one tool call into each slot, whether or not the
\* other call is in flight: every await of a handler yields to the event loop,
\* which runs the other call's next stretch or lets time pass.
ConcurrentNext ==
    \/ \E p \in Procs :
          \/ \E args \in ConcurrentRequests : Generate_Start(p, args)
          \/ Generate_RunRejects(p)
          \/ Generate_RunResolves(p)
          \/ Generate_WriteSettles(p)
    \/ Tick(0..MaxTicks)

ConcurrentSpec == Init /\ [][ConcurrentNext]_vars

(***************************************************************************)
(* Properties                                                              *)
(***************************************************************************)

Done(p) == calls[p].pc = "done"
Text(p) == calls[p].response.content[1].text
IsGenerate(p) == calls[p].tool \in {"generate", "generate_async"}

\* The remote call of the invocation in slot p has settled with a rejection.
RemoteFailed(p) == Done(p) /\ calls[p].reply.error.thrown

\* The generate call in slot p got `n` image references from replicate.run.
GenerateGot(p, n) ==
    /\ Done(p)
    /\ calls[p].tool = "generate"
    /\ ~calls[p].reply.error.thrown
    /\ calls[p].reply.output.present
    /\ Len(calls[p].reply.output.refs) = n

\* The get_prediction call in slot p got a prediction from the remote system.
GotPrediction(p) ==
    /\ Done(p)
    /\ calls[p].tool = "get_prediction"
    /\ ~calls[p].reply.error.thrown

WellFormed(response) ==
    /\ response.isError \in BOOLEAN
    /\ Len(response.content) >= 1
    /\ \A i \in DOMAIN response.content : response.content[i].type = "text"

\* C1: a generate or generate_async call whose input violates the contract
\* (prompt missing, number_of_images outside 1..9, aspect_ratio outside the
\* enum) issues no remote call and ends in an error response.
C1_InvalidInputIssuesNoRemoteCall ==
    \A p \in Procs :
       (IsGenerate(p) /\ ~ValidRequest(calls[p].args)) =>
          /\ calls[p].remoteCalls = 0
          /\ Done(p) => calls[p].response.isError

\* C2: no exception escapes a handler: whatever the input, the remote API and
\* the filesystem do, the handler returns a well-formed envelope, flagged
\* isError exactly when its try block threw, and the slot can be served again.
C2_HandlersAlwaysReturnAnEnvelope ==
    \A p \in Procs :
       /\ calls[p].pc # "escaped"
       /\ Done(p) =>
             /\ WellFormed(calls[p].response)
             /\ calls[p].response.isError <=> calls[p].thrown.thrown

\* C2 witness: get_prediction has returned an error envelope after mkdirSync threw.
C2_Witness ==
    \E p \in Procs :
       /\ Done(p)
       /\ calls[p].tool = "get_prediction"
       /\ calls[p].thrown = Error(MkdirMessage)
       /\ calls[p].response.isError

\* C3: when replicate.run returns n references for a valid request of n images,
\* generate returns a successful response with exactly n entries, indexed 1..n
\* in output order.
C3_GenerateReturnsOneEntryPerReference ==
    \A p \in Procs :
       (/\ ValidRequest(calls[p].args)
        /\ GenerateGot(p, Default(calls[p].args, "number_of_images", 1))) =>
          /\ ~calls[p].response.isError
          /\ Len(Text(p).images) = Len(calls[p].reply.output.refs)
          /\ \A i \in DOMAIN Text(p).images :
                /\ Text(p).images[i].index = i
                /\ Text(p).images[i].url = calls[p].reply.output.refs[i].url

SaveFailures(p) ==
    {i \in DOMAIN calls[p].savedImages : calls[p].savedImages[i].localPath = NullPath}

\* C4: when replicate.run returns three references and exactly one save fails,
\* the response has 2 local paths and 1 entry without, flags the degraded save
\* in its text, and lists all 3 references.
C4_OneFailedSaveOfThreeIsFlagged ==
    \A p \in Procs :
       (GenerateGot(p, 3) /\ Cardinality(SaveFailures(p)) = 1) =>
          /\ ~calls[p].response.isError
          /\ Cardinality({i \in DOMAIN Text(p).images : Has(Text(p).images[i], "localPath")}) = 2
          /\ Cardinality({i \in DOMAIN Text(p).images : ~Has(Text(p).images[i], "localPath")}) = 1
          /\ \A i \in 1..3 : Text(p).images[i].url = calls[p].reply.output.refs[i].url
          /\ Text(p).note = SaveFailedNote

\* C5: a failure while materializing assets (directory creation, file write)
\* never fails the operation: once the remote call of generate, or of
\* get_prediction on a succeeded job, returned a reference, the response is
\* not flagged isError.
C5_SaveFailureNeverFailsTheOperation ==
    \A p \in Procs :
       (\/ /\ ValidRequest(calls[p].args)
           /\ \E n \in 1..MaxOut : GenerateGot(p, n)
        \/ /\ GotPrediction(p)
           /\ HasImages(calls[p].reply.prediction)) =>
          ~calls[p].response.isError

\* C6: get_prediction on a succeeded job with k output references has made,
\* when it returns, exactly one save attempt per reference, in output order,
\* and every attempt has settled.
C6_GetPredictionAttemptsEveryReference ==
    \A p \in Procs :
       (/\ GotPrediction(p)
        /\ calls[p].reply.prediction.status = "succeeded"
        /\ calls[p].reply.prediction.output.present) =>
          LET refs == calls[p].reply.prediction.output.refs
          IN  /\ calls[p].attempts = [i \in DOMAIN refs |-> refs[i].url]
              /\ Len(calls[p].savedImages) = Len(refs)

\* C7: when the remote call of an operation rejects (transport or auth
\* failure, unknown prediction id), the response is flagged isError, carries
\* the remote error's message, and the call has touched no local storage.
C7_RemoteFailureAbortsTheCall ==
    \A p \in Procs :
       RemoteFailed(p) =>
          /\ calls[p].response.isError
          /\ Text(p).detail = calls[p].reply.error.message
          /\ calls[p].attempts = <<>>
          /\ calls[p].savedImages = <<>>
          /\ ~calls[p].madeDir

\* C7 witness: get_prediction has returned after the remote system did not know the id.
C7_Witness ==
    \E p \in Procs :
       /\ RemoteFailed(p)
       /\ calls[p].tool = "get_prediction"
       /\ calls[p].reply.error.message = NotFoundMessage

\* C8: cancel_prediction, on any job and however often, never ends in an
\* unhandled fault, and every response to a request the remote system
\* answered reports the status the remote system returned for that request.
C8_CancelReportsTheRemoteStatus ==
    \A p \in Procs :
       calls[p].tool = "cancel_prediction" =>
          /\ calls[p].pc # "escaped"
          /\ (Done(p) /\ ~calls[p].reply.error.thrown) =>
                /\ ~calls[p].response.isError
                /\ Text(p).status = calls[p].reply.prediction.status

\* C8 witness: cancel_prediction has returned for a job that had already
\* succeeded, and the remote system reported it unchanged.
C8_Witness ==
    \E p \in Procs :
       /\ Done(p)
       /\ calls[p].tool = "cancel_prediction"
       /\ ~calls[p].reply.error.thrown
       /\ calls[p].reply.prediction.status = "succeeded"

InputFields == {"prompt", "aspect_ratio", "number_of_images", "prompt_optimizer",
                "subject_reference"}

\* The fields of a request that belong to the model input.
RequestFields(args) == [k \in DOMAIN args \cap InputFields |-> args[k]]

\* The request with the schema's defaults in place of the optional fields it omits.
WithDefaults(args) ==
    Merge([aspect_ratio |-> "1:1", number_of_images |-> 1, prompt_optimizer |-> TRUE],
          RequestFields(args))

\* get_prediction has returned the job a valid generate_async request created.
EchoedValidRequest(p) ==
    /\ GotPrediction(p)
    /\ ~calls[p].response.isError
    /\ calls[p].args.prediction_id \in DOMAIN submitted
    /\ ValidRequest(submitted[calls[p].args.prediction_id])

\* C9 (as claimed): the input get_prediction echoes for a prediction created by
\* a valid generate_async request equals that request's fields exactly.
C9_EchoEqualsTheRequest ==
    \A p \in Procs :
       EchoedValidRequest(p) =>
          Text(p).input = RequestFields(submitted[calls[p].args.prediction_id])

\* C9 (amended): the echoed input equals the request's fields with each omitted
\* one of aspect_ratio, number_of_images and prompt_optimizer at its default
\* ("1:1", 1, true); subject_reference is echoed exactly when it was supplied.
C9_EchoEqualsTheRequestWithDefaults ==
    \A p \in Procs :
       EchoedValidRequest(p) =>
          Text(p).input = WithDefaults(submitted[calls[p].args.prediction_id])

\* C9 witness: get_prediction has echoed a request that left the optional fields out.
C9_Witness ==
    \E p \in Procs :
       /\ EchoedValidRequest(p)
       /\ submitted[calls[p].args.prediction_id] = [prompt |-> Prompt]

\* A call that must not materialize assets: generate_async, cancel_prediction,
\* and get_prediction once the remote system reported a status other than succeeded.
NonMaterializing(call) ==
    \/ call.tool \in {"generate_async", "cancel_prediction"}
    \/ /\ call.tool = "get_prediction"
       /\ call.pc \in {"write", "done"}
       /\ ~call.reply.error.thrown
       /\ call.reply.prediction.status # "succeeded"

\* C10: every step of generate_async, of cancel_prediction, and of
\* get_prediction on a job that is not succeeded leaves local storage as it
\* was: the images directory is not created and no file appears.
C10_OnlySucceededJobsAreMaterialized ==
    [][\A p \in Procs :
          (calls'[p] # calls[p] /\ (NonMaterializing(calls[p]) \/ NonMaterializing(calls'[p]))) =>
             (dirExists' = dirExists /\ files' = files)]_vars

\* C10 witness: get_prediction has returned for a running job that already carries
\* output, and the images directory still does not exist.
C10_Witness ==
    \E p \in Procs :
       /\ GotPrediction(p)
       /\ calls[p].reply.prediction.status = "running"
       /\ calls[p].reply.prediction.output.present
       /\ ~dirExists
       /\ files = {}

\* replicate.run of the generate call in slot p resolved without any image:
\* with no output at all, or with an empty array.
GenerateGotNothing(p) ==
    /\ Done(p)
    /\ calls[p].tool = "generate"
    /\ ~calls[p].reply.error.thrown
    /\ EmptyOutput(calls[p].reply.output)

\* C11: when replicate.run resolves with an absent or empty output, generate
\* returns a response flagged isError carrying the empty-output message, and
\* the call has neither created the images directory nor started any write.
C11_EmptyOutputFailsWithoutTouchingStorage ==
    \A p \in Procs :
       (/\ Done(p)
        /\ calls[p].tool = "generate"
        /\ ~calls[p].reply.error.thrown
        /\ ~calls[p].reply.output.present \/ Len(calls[p].reply.output.refs) = 0) =>
          /\ calls[p].response.isError
          /\ Text(p).detail = EmptyOutputMessage
          /\ ~calls[p].madeDir
          /\ calls[p].attempts = <<>>
          /\ calls[p].savedImages = <<>>

\* C11 witness: generate has returned after replicate.run resolved with an
\* empty array while the images directory did not exist.
C11_Witness ==
    \E p \in Procs :
       /\ GenerateGotNothing(p)
       /\ calls[p].reply.output.present
       /\ ~dirExists

Derived(p) == calls[p].pc = "derived"

\* The elements of a set of positions, in increasing order.
Ordered(S) ==
    [k \in 1..Cardinality(S) |-> CHOOSE i \in S : Cardinality({j \in S : j < i}) = k - 1]

\* The safe prompt as the claim describes it, position by position, with
\* `spaces` the characters it counts as whitespace: a letter or digit of the
\* lower-cased prompt stands for itself, a whitespace character that does not
\* follow another one (removed characters aside) stands for one underscore,
\* everything else is dropped; the first 50 characters of that are kept.
DescribedSafePrompt(prompt, spaces) ==
    LET lower    == [i \in DOMAIN prompt |-> LowerChar(prompt[i])]
        alnum    == Range(LowerCase) \cup Digits
        kept     == {i \in DOMAIN lower : lower[i] \in alnum \cup spaces}
        before(i) == {j \in kept : j < i}
        last(i)  == CHOOSE j \in before(i) : \A k \in before(i) : k <= j
        shown    == {i \in kept : \/ lower[i] \in alnum
                                    \/ before(i) = {}
                                    \/ lower[last(i)] \notin spaces}
        order    == Ordered(shown)
        whole    == [k \in DOMAIN order |->
                        IF lower[order[k]] \in alnum THEN lower[order[k]] ELSE "_"]
    IN  SubSeq(whole, 1, IF Len(whole) < 50 THEN Len(whole) ELSE 50)

\* The name up to its timestamp, as the claim describes it.
DescribedStem(prompt, index, spaces) ==
    <<"minimax_image_01_">> \o DescribedSafePrompt(prompt, spaces) \o <<"_">>
                            \o NumberToString(index) \o <<"_">>

\* `name` is the stem, a timestamp free of colons and periods, and the extension.
HasDescribedForm(name, stem) ==
    /\ Len(name) > Len(stem) + 1
    /\ SubSeq(name, 1, Len(stem)) = stem
    /\ name[Len(name)] = ".jpeg"
    /\ \A i \in (Len(stem) + 1)..(Len(name) - 1) : name[i] \notin {":", ".", "/", "_"}

\* Derivations of the same prompt and index at different instants differ.
DifferentInstantsDifferentNames ==
    \A p, q \in Procs :
       (Derived(p) /\ Derived(q) /\ calls[p].reply.now # calls[q].reply.now) =>
          calls[p].filename # calls[q].filename

\* 'A Red Panda!!!', 1 gives minimax_image_01_a_red_panda_1_<timestamp>.<ext>
RedPandaExample ==
    \A p \in Procs :
       (Derived(p) /\ calls[p].args = [prompt |-> RedPanda, index |-> 1]) =>
          SubSeq(calls[p].filename, 1, 15) =
             <<"minimax_image_01_", "a", "_", "r", "e", "d", "_", "p", "a", "n", "d", "a",
               "_", "1", "_">>

Downloads(p) ==
    [i \in DOMAIN calls[p].attempts |->
        FilePath(IF i <= Len(calls[p].savedImages)
                 THEN calls[p].savedImages[i].filename
                 ELSE calls[p].filename)]

\* The call in slot p is between its start and its return.
Running(p) == calls[p].pc \in {"run", "write"}

\* C13: under every interleaving of concurrently dispatched tool calls, every
\* download writes to a file path of its own: the paths of one call differ from
\* each other, and from every path of a call running at the same time.
C13_ConcurrentDownloadsHaveDistinctPaths ==
    \A p, q \in Procs :
       /\ \A i, j \in DOMAIN Downloads(p) : i # j => Downloads(p)[i] # Downloads(p)[j]
       /\ (p # q /\ Running(p) /\ Running(q)) =>
             \A i \in DOMAIN Downloads(p), j \in DOMAIN Downloads(q) :
                Downloads(p)[i] # Downloads(q)[j]

\* C14: when the tool call has returned, every asset whose save failed has an
\* entry with the original reference and no local path, and no file, partial
\* or whole, exists at the path the save was writing to.
C14_FailedSaveLeavesNoFile ==
    \A p \in Procs :
       Done(p) =>
          \A i \in DOMAIN calls[p].savedImages :
             calls[p].savedImages[i].localPath = NullPath =>
                /\ calls[p].savedImages[i].url = calls[p].output[i].url
                /\ calls[p].savedImages[i].filename \notin files

\* The arguments of the call in slot p meet the inputSchema of its tool.
ValidInput(p) ==
    IF IsGenerate(p) THEN ValidRequest(calls[p].args) ELSE Has(calls[p].args, "prediction_id")

\* The remote call of the invocation in slot p has been answered with a rejection.
Rejected(p) == Has(calls[p].reply, "error") /\ calls[p].reply.error.thrown

\* C15: no retry or backoff: a tool invocation has issued at most one call to
\* the remote API, exactly one once it runs on valid input, and when that call
\* is rejected the invocation has returned its error response, carrying the
\* rejection's message, without another call.
C15_OneRemoteCallAndNoRetry ==
    \A p \in Procs :
       /\ calls[p].remoteCalls <= 1
       /\ (calls[p].pc # "idle" /\ ValidInput(p)) => calls[p].remoteCalls = 1
       /\ Rejected(p) =>
             /\ Done(p)
             /\ calls[p].response.isError
             /\ calls[p].thrown = calls[p].reply.error
             /\ calls[p].remoteCalls = 1

\* C15 witness: cancel_prediction has returned its error response after the
\* one request it issued failed in transport.
C15_Witness ==
    \E p \in Procs :
       /\ calls[p].tool = "cancel_prediction"
       /\ Rejected(p)
       /\ calls[p].reply.error.message \in TransportErrors
       /\ calls[p].remoteCalls = 1
       /\ Done(p)

====
